---- MODULE Spec2Model ----
(***************************************************************************)
(* A model of frame-extractor.py: directory validation, discovery of       *)
(* candidate video files, the per-file extract_first_frame routine and the *)
(* tally kept by main.  File names and paths are sequences of one-character*)
(* strings so that lower(), endswith(), os.path.join and os.path.splitext  *)
(* are computed as the library computes them.  The external collaborators  *)
(* (cv2.VideoCapture, read, imwrite) are an environment whose outcome for  *)
(* a given file is fixed when the directory is set up: VideoCapture() may   *)
(* raise, return an unopened or an opened session; read() may raise, give  *)
(* no frame or a frame; imwrite may raise, return False (nothing written)  *)
(* or write the file.  release() only drops the handle and does not raise. *)
(* os.listdir lists the entries in an arbitrary order that is a property   *)
(* of the directory: it is chosen once and a new file is added at the end. *)
(* main is modelled from the directory validation on (line 149); the       *)
(* dependency check and the prompt before it are outside the model.        *)
(***************************************************************************)
EXTENDS Integers, Sequences, FiniteSets, TLC

\* ------------------------------------------------------------------ bounds
MaxFiles == 2      \* most entries in the target directory
MaxRuns == 2       \* most invocations of the program on the directory

\* --------------------------------------------------------- string helpers
Upper == <<"A","B","C","D","E","F","G","H","I","J","K","L","M",
           "N","O","P","Q","R","S","T","U","V","W","X","Y","Z">>
LowerLetters == <<"a","b","c","d","e","f","g","h","i","j","k","l","m",
                  "n","o","p","q","r","s","t","u","v","w","x","y","z">>

\* str.lower() on one character
LowerChar(c) ==
    IF \E k \in DOMAIN Upper : Upper[k] = c
    THEN LowerLetters[CHOOSE k \in DOMAIN Upper : Upper[k] = c]
    ELSE c

\* str.lower()
Lower(s) == [i \in DOMAIN s |-> LowerChar(s[i])]

\* str.endswith(suffix)
EndsWith(s, suf) ==
    /\ Len(s) >= Len(suf)
    /\ SubSeq(s, Len(s) - Len(suf) + 1, Len(s)) = suf

\* str.rfind(c), 1-based, 0 when c does not occur
RFind(s, c) ==
    IF \E i \in DOMAIN s : s[i] = c
    THEN CHOOSE i \in DOMAIN s : s[i] = c /\ \A j \in DOMAIN s : s[j] = c => j <= i
    ELSE 0

\* os.path.join(a, b) on POSIX
Join(a, b) ==
    IF Len(b) > 0 /\ b[1] = "/" THEN b
    ELSE IF Len(a) = 0 \/ a[Len(a)] = "/" THEN a \o b
    ELSE a \o <<"/">> \o b

\* os.path.splitext(p) on POSIX: the extension starts at the last dot after
\* the last separator, and leading dots of the file name are not an extension
splitext(p) ==
    LET sepIndex == RFind(p, "/")
        dotIndex == RFind(p, ".")
    IN  IF dotIndex > sepIndex
           /\ \E k \in (sepIndex + 1)..(dotIndex - 1) : p[k] # "."
        THEN <<SubSeq(p, 1, dotIndex - 1), SubSeq(p, dotIndex, Len(p))>>
        ELSE <<p, <<>> >>

\* ------------------------------------------------- the program's constants
video_extensions ==
    << <<".","m","p","4">>, <<".","a","v","i">>, <<".","m","o","v">>,
       <<".","m","k","v">>, <<".","w","m","v">>, <<".","f","l","v">> >>

FirstFrameSuffix ==
    <<"_","f","i","r","s","t","_","f","r","a","m","e",".","p","n","g">>

None == <<>>

\* ---------------------------------------------------------- the environment
\* the directory argument of the run
Dir == <<"v",".","d">>

\* file names a directory may hold
Names ==
    { <<"a",".","m","p","4">>,
      <<"a",".","A","V","I">>,
      <<".","m","k","v">>,
      <<"b",".","t","x","t">>,
      <<"a">> \o FirstFrameSuffix }

\* directory listings: entries are distinct, the order is arbitrary
Listings ==
    UNION { { s \in [1..n -> Names] : \A i, j \in 1..n : i # j => s[i] # s[j] }
            : n \in 0..MaxFiles }

\* what os.path.exists / os.path.isdir / os.access(R_OK | W_OK) answer
DirStates ==
    { d \in [exists : BOOLEAN, isdir : BOOLEAN, rw : BOOLEAN] :
        /\ d.isdir => d.exists
        /\ d.rw => d.exists }

\* what the decode/encode library does with one file
Outcomes ==
    {"open_raise", "open_fail", "read_raise", "read_none",
     "write_raise", "write_false", "ok"}

Orig == [kind |-> "orig", of |-> None]
Png(src) == [kind |-> "png", of |-> src]

VARIABLES
    dirState,       \* answers of the os.path / os.access probes on Dir
    listing,        \* os.listdir(Dir), in the directory's order
    fs,             \* path -> content of the files under Dir
    fs0,            \* fs when the first run started
    outcome,        \* path -> Outcomes, fixed per file
    pc,             \* position of main
    exit_status,    \* <<>> while running, <<n>> once the process has exited
    video_files,    \* main's video_files
    idx,            \* position of the for loop in video_files
    successful,     \* main's counters (0 until line 163 binds them)
    failed,
    summary,        \* <<>> or the logged summary
    video_capture,  \* the local of extract_first_frame
    frame,          \* the frame read, None if none
    ret,            \* the pending return value of extract_first_frame
    openSessions,   \* decode sessions currently open
    constructions,  \* VideoCapture objects constructed in this run
    releases,       \* release() calls completed in this run
    inv,            \* one record per invocation of extract_first_frame
    wrote,          \* path -> source, the files this run wrote
    run,            \* number of the current run
    history         \* what each earlier run left behind

vars == <<dirState, listing, fs, fs0, outcome, pc, exit_status, video_files,
          idx, successful, failed, summary, video_capture, frame, ret,
          openSessions, constructions, releases, inv, wrote, run, history>>

\* ------------------------------------------------------- pure functions
\* validate_directory without the permission probe of line 68
validate_directory_NoAccess(d) ==
    IF ~d.exists THEN FALSE
    ELSE IF ~d.isdir THEN FALSE
    ELSE TRUE

\* validate_directory
validate_directory(d) ==
    IF ~d.exists THEN FALSE
    ELSE IF ~d.isdir THEN FALSE
    ELSE IF ~d.rw THEN FALSE
    ELSE TRUE

\* the test of line 87
IsVideoName(file) ==
    \E k \in DOMAIN video_extensions : EndsWith(Lower(file), video_extensions[k])

\* get_video_files
get_video_files(directory, entries) ==
    LET sel == SelectSeq(entries, IsVideoName)
    IN  [i \in 1..Len(sel) |-> Join(directory, sel[i])]

\* lines 118-119
OutputPath(video_path) == splitext(video_path)[1] \o FirstFrameSuffix

\* the truth value of extract_first_frame's result at line 167
Truthy(r) == r # None /\ Len(r) > 0

OutcomeOf(p) == IF p \in DOMAIN outcome THEN outcome[p] ELSE "open_fail"

Basename(p) == SubSeq(p, RFind(p, "/") + 1, Len(p))

NewInv(p) ==
    [path |-> p, raised |-> "none", opened |-> FALSE, readTried |-> FALSE,
     gotFrame |-> FALSE, writeTried |-> FALSE, encodeFailed |-> FALSE,
     wrote |-> FALSE, ret |-> None, returned |-> FALSE, propagated |-> FALSE]

Cur == inv[Len(inv)]
SetCur(r) == [inv EXCEPT ![Len(inv)] = r]

\* ------------------------------------------------------------------ Init
Init ==
    /\ dirState \in DirStates
    /\ listing \in (IF dirState.isdir THEN Listings ELSE {<<>>})
    /\ fs = [p \in {Join(Dir, listing[i]) : i \in DOMAIN listing} |-> Orig]
    /\ fs0 = fs
    /\ outcome \in [{Join(Dir, listing[i]) : i \in
                        {j \in DOMAIN listing : IsVideoName(listing[j])}} -> Outcomes]
    /\ pc = "Unvalidated"
    /\ exit_status = <<>>
    /\ video_files = <<>>
    /\ idx = 1
    /\ successful = 0
    /\ failed = 0
    /\ summary = <<>>
    /\ video_capture = "unbound"
    /\ frame = None
    /\ ret = None
    /\ openSessions = 0
    /\ constructions = 0
    /\ releases = 0
    /\ inv = <<>>
    /\ wrote = <<>>
    /\ run = 1
    /\ history = <<>>

EnvVars == <<dirState, outcome, fs0, run, history>>
ExtractorVars == <<video_capture, frame, ret, openSessions, constructions,
                   releases, inv, wrote>>

\* ---------------------------------------------------------------- main
\* lines 149-151
Validate ==
    /\ pc = "Unvalidated"
    /\ IF validate_directory(dirState)
       THEN pc' = "Validated" /\ exit_status' = exit_status
       ELSE pc' = "Aborted" /\ exit_status' = <<1>>
    /\ UNCHANGED <<listing, fs, video_files, idx, successful, failed, summary>>
    /\ UNCHANGED EnvVars
    /\ UNCHANGED ExtractorVars

\* lines 153-164
Discover ==
    /\ pc = "Validated"
    /\ video_files' = get_video_files(Dir, listing)
    /\ IF Len(video_files') = 0
       THEN /\ pc' = "NoFiles"
            /\ exit_status' = <<0>>
            /\ UNCHANGED <<successful, failed, idx>>
       ELSE /\ pc' = "Processing"
            /\ exit_status' = exit_status
            /\ successful' = 0
            /\ failed' = 0
            /\ idx' = 1
    /\ UNCHANGED <<listing, fs, summary>>
    /\ UNCHANGED EnvVars
    /\ UNCHANGED ExtractorVars

\* ------------------------------------------------- extract_first_frame
\* the call of line 167 and lines 102-108: cv2.VideoCapture(video_path) and
\* the isOpened() test; an error lands in the handler of lines 126-128
OpenSession ==
    /\ pc = "Processing"
    /\ idx <= Len(video_files)
    /\ LET p == video_files[idx]
           o == OutcomeOf(p)
       IN  CASE o = "open_raise" ->
                  /\ inv' = Append(inv, [NewInv(p) EXCEPT !.raised = "open"])
                  /\ ret' = None
                  /\ pc' = "Finally"
                  /\ UNCHANGED <<video_capture, constructions, openSessions>>
             [] o = "open_fail" ->
                  /\ inv' = Append(inv, NewInv(p))
                  /\ video_capture' = "closed"
                  /\ constructions' = constructions + 1
                  /\ ret' = None
                  /\ pc' = "Finally"
                  /\ UNCHANGED openSessions
             [] OTHER ->
                  /\ inv' = Append(inv, [NewInv(p) EXCEPT !.opened = TRUE])
                  /\ video_capture' = "open"
                  /\ constructions' = constructions + 1
                  /\ openSessions' = openSessions + 1
                  /\ ret' = ret
                  /\ pc' = "Opened"
    /\ UNCHANGED <<listing, fs, exit_status, video_files, idx, successful,
                   failed, summary, frame, releases, wrote>>
    /\ UNCHANGED EnvVars

\* ReadFrame without the test of line 113
ReadFrame_NoCheck ==
    /\ pc = "Opened"
    /\ LET o == OutcomeOf(Cur.path)
       IN  CASE o = "read_raise" ->
                  /\ inv' = SetCur([Cur EXCEPT !.readTried = TRUE, !.raised = "read"])
                  /\ frame' = None
                  /\ ret' = None
                  /\ pc' = "Finally"
             [] OTHER ->
                  /\ inv' = SetCur([Cur EXCEPT !.readTried = TRUE,
                                               !.gotFrame = (o # "read_none")])
                  /\ frame' = IF o = "read_none" THEN None ELSE Cur.path
                  /\ ret' = ret
                  /\ pc' = "FrameRead"
    /\ UNCHANGED <<listing, fs, exit_status, video_files, idx, successful,
                   failed, summary, video_capture, openSessions, constructions,
                   releases, wrote>>
    /\ UNCHANGED EnvVars

\* lines 110-115: video_capture.read() and the test of its success flag
ReadFrame ==
    /\ pc = "Opened"
    /\ LET o == OutcomeOf(Cur.path)
       IN  CASE o = "read_raise" ->
                  /\ inv' = SetCur([Cur EXCEPT !.readTried = TRUE, !.raised = "read"])
                  /\ frame' = None
                  /\ ret' = None
                  /\ pc' = "Finally"
             [] o = "read_none" ->
                  /\ inv' = SetCur([Cur EXCEPT !.readTried = TRUE])
                  /\ frame' = None
                  /\ ret' = None
                  /\ pc' = "Finally"
             [] OTHER ->
                  /\ inv' = SetCur([Cur EXCEPT !.readTried = TRUE, !.gotFrame = TRUE])
                  /\ frame' = Cur.path
                  /\ ret' = ret
                  /\ pc' = "FrameRead"
    /\ UNCHANGED <<listing, fs, exit_status, video_files, idx, successful,
                   failed, summary, video_capture, openSessions, constructions,
                   releases, wrote>>
    /\ UNCHANGED EnvVars

\* cv2.imwrite succeeding: the file at out now holds the frame
StoreFrame(out, src) ==
    /\ fs' = [q \in DOMAIN fs \cup {out} |-> IF q = out THEN Png(src) ELSE fs[q]]
    /\ listing' = IF out \in DOMAIN fs THEN listing
                  ELSE Append(listing, Basename(out))
    /\ wrote' = [q \in DOMAIN wrote \cup {out} |-> IF q = out THEN src ELSE wrote[q]]

\* WriteFrame refusing to replace a file that is already there
WriteFrame_NoOverwrite ==
    /\ pc = "FrameRead"
    /\ LET o == OutcomeOf(Cur.path)
           output_path == OutputPath(Cur.path)
       IN  CASE o = "write_raise" \/ output_path \in DOMAIN fs ->
                  /\ inv' = SetCur([Cur EXCEPT !.writeTried = TRUE,
                                               !.encodeFailed = TRUE,
                                               !.raised = "write"])
                  /\ ret' = None
                  /\ UNCHANGED <<fs, listing, wrote>>
             [] o = "write_false" ->
                  /\ inv' = SetCur([Cur EXCEPT !.writeTried = TRUE,
                                               !.encodeFailed = TRUE])
                  /\ ret' = output_path
                  /\ UNCHANGED <<fs, listing, wrote>>
             [] OTHER ->
                  /\ inv' = SetCur([Cur EXCEPT !.writeTried = TRUE, !.wrote = TRUE])
                  /\ StoreFrame(output_path, frame)
                  /\ ret' = output_path
    /\ pc' = "Finally"
    /\ UNCHANGED <<exit_status, video_files, idx, successful, failed, summary,
                   video_capture, frame, openSessions, constructions, releases>>
    /\ UNCHANGED EnvVars

\* lines 117-124: derive the output path, cv2.imwrite (its boolean result
\* is dropped), return output_path; an error lands in the handler of 126-128
WriteFrame ==
    /\ pc = "FrameRead"
    /\ LET o == OutcomeOf(Cur.path)
           output_path == OutputPath(Cur.path)
       IN  CASE o = "write_raise" ->
                  /\ inv' = SetCur([Cur EXCEPT !.writeTried = TRUE,
                                               !.encodeFailed = TRUE,
                                               !.raised = "write"])
                  /\ ret' = None
                  /\ UNCHANGED <<fs, listing, wrote>>
             [] o = "write_false" ->
                  /\ inv' = SetCur([Cur EXCEPT !.writeTried = TRUE,
                                               !.encodeFailed = TRUE])
                  /\ ret' = output_path
                  /\ UNCHANGED <<fs, listing, wrote>>
             [] OTHER ->
                  /\ inv' = SetCur([Cur EXCEPT !.writeTried = TRUE, !.wrote = TRUE])
                  /\ StoreFrame(output_path, frame)
                  /\ ret' = output_path
    /\ pc' = "Finally"
    /\ UNCHANGED <<exit_status, video_files, idx, successful, failed, summary,
                   video_capture, frame, openSessions, constructions, releases>>
    /\ UNCHANGED EnvVars

\* a finally clause that forgets the release
ReleaseSession_Forgot ==
    /\ UNCHANGED <<openSessions, releases>>
    /\ video_capture' = "unbound"

\* line 131: video_capture.release(); the local dies with the return
ReleaseSession ==
    /\ openSessions' = IF video_capture = "open" THEN openSessions - 1
                       ELSE openSessions
    /\ releases' = releases + 1
    /\ video_capture' = "unbound"

\* the tally with its two branches exchanged
TallyResult_Swapped(r) ==
    IF Truthy(r)
    THEN failed' = failed + 1 /\ successful' = successful
    ELSE successful' = successful + 1 /\ failed' = failed

\* lines 167-170
TallyResult(r) ==
    IF Truthy(r)
    THEN successful' = successful + 1 /\ failed' = failed
    ELSE failed' = failed + 1 /\ successful' = successful

\* lines 130-131, the return, and the loop body of main (lines 166-170).
\* When VideoCapture() raised, video_capture is unbound: line 131 raises
\* UnboundLocalError, which replaces the pending return and leaves main.
Release ==
    /\ pc = "Finally"
    /\ IF video_capture = "unbound"
       THEN /\ pc' = "Crashed"
            /\ exit_status' = <<1>>
            /\ inv' = SetCur([Cur EXCEPT !.propagated = TRUE])
            /\ UNCHANGED <<video_capture, openSessions, releases, successful,
                           failed, idx>>
       ELSE /\ ReleaseSession
            /\ inv' = SetCur([Cur EXCEPT !.ret = ret, !.returned = TRUE])
            /\ TallyResult(ret)
            /\ idx' = idx + 1
            /\ pc' = "Processing"
            /\ exit_status' = exit_status
    /\ frame' = None
    /\ ret' = None
    /\ UNCHANGED <<listing, fs, video_files, summary, constructions, wrote>>
    /\ UNCHANGED EnvVars

\* lines 172-178, and the process ending with status 0
Report ==
    /\ pc = "Processing"
    /\ idx > Len(video_files)
    /\ summary' = <<[total |-> Len(video_files), successful |-> successful,
                     failed |-> failed]>>
    /\ pc' = "Reported"
    /\ exit_status' = <<0>>
    /\ UNCHANGED <<listing, fs, video_files, idx, successful, failed>>
    /\ UNCHANGED EnvVars
    /\ UNCHANGED ExtractorVars

EndStates == {"Aborted", "NoFiles", "Reported", "Crashed"}

\* the program is started again on the same directory (lines 180-181)
Rerun ==
    /\ pc \in EndStates
    /\ run < MaxRuns
    /\ history' = Append(history,
                    [pc |-> pc, exit_status |-> exit_status,
                     video_files |-> video_files, successful |-> successful,
                     failed |-> failed, summary |-> summary, fs |-> fs,
                     wrote |-> wrote])
    /\ run' = run + 1
    /\ pc' = "Unvalidated"
    /\ exit_status' = <<>>
    /\ video_files' = <<>>
    /\ idx' = 1
    /\ successful' = 0
    /\ failed' = 0
    /\ summary' = <<>>
    /\ video_capture' = "unbound"
    /\ frame' = None
    /\ ret' = None
    /\ openSessions' = 0
    /\ constructions' = 0
    /\ releases' = 0
    /\ inv' = <<>>
    /\ wrote' = <<>>
    /\ UNCHANGED <<dirState, listing, fs, fs0, outcome>>

Next ==
    \/ Validate
    \/ Discover
    \/ OpenSession
    \/ ReadFrame
    \/ WriteFrame
    \/ Release
    \/ Report
    \/ Rerun

Spec == Init /\ [][Next]_vars

TypeOK ==
    /\ dirState \in DirStates
    /\ pc \in {"Unvalidated", "Validated", "Processing", "Opened", "FrameRead",
               "Finally"} \cup EndStates
    /\ idx \in 1..(Len(video_files) + 1)
    /\ successful \in 0..Len(video_files)
    /\ failed \in 0..Len(video_files)
    /\ video_capture \in {"unbound", "closed", "open"}
    /\ run \in 1..MaxRuns

\* ------------------------------------------------------------ properties
Processed == [i \in DOMAIN inv |-> inv[i].path]
Returned == {i \in DOMAIN inv : inv[i].returned}
InExtractor == {"Opened", "FrameRead", "Finally"}

\* C1: an error raised while one candidate is processed never leaves
\* extract_first_frame, and main goes on with the remaining candidates.
C1_ErrorsContained ==
    \A i \in DOMAIN inv :
        inv[i].raised # "none" => ~inv[i].propagated /\ pc # "Crashed"

\* C2: when encoding the frame fails, the invocation returns no output
\* path and main counts the file as failed.
C2_EncodeFailureIsFailure ==
    /\ \A i \in Returned : inv[i].encodeFailed => inv[i].ret = None
    /\ failed >= Cardinality({i \in Returned : inv[i].encodeFailed})

\* C3: at the end of every run that got past validation,
\* successful + failed = total, the number of candidates discovered.
C3_CountersAddUp ==
    pc \in {"NoFiles", "Reported", "Crashed"} =>
        successful + failed = Len(video_files)

\* C4: a directory that fails validation sends the run to Aborted with a
\* non-zero exit status; discovery never runs, no file is opened or written.
C4_ValidationAborts ==
    ~(dirState.exists /\ dirState.isdir /\ dirState.rw) =>
        /\ pc \in {"Unvalidated", "Aborted"}
        /\ pc = "Aborted" => exit_status # <<>> /\ exit_status[1] # 0
        /\ video_files = <<>>
        /\ inv = <<>>
        /\ constructions = 0
        /\ wrote = <<>>
        /\ fs = fs0

C4_Witness ==
    /\ pc = "Aborted"
    /\ dirState.isdir
    /\ ~dirState.rw
    /\ Len(get_video_files(Dir, listing)) > 0

\* C5: a run with candidates ends with every candidate passed to the
\* extractor exactly once, in discovery order, whatever failed, and the
\* summary is emitted only after the last one.
C5_EveryCandidateOnce ==
    /\ pc \in EndStates /\ Len(video_files) > 0 => Processed = video_files
    /\ summary # <<>> => Processed = video_files /\ Returned = DOMAIN inv

C7_ExitZero ==
    pc \in EndStates /\ dirState.exists /\ dirState.isdir /\ dirState.rw =>
        exit_status = <<0>>

C9_Idempotent ==
    pc \in EndStates /\ Len(history) >= 1 =>
        LET h == history[Len(history)]
        IN  /\ video_files = h.video_files
            /\ wrote = h.wrote
            /\ fs = h.fs
            /\ successful = h.successful
            /\ failed = h.failed
            /\ summary = h.summary
            /\ pc = h.pc
            /\ \A p \in DOMAIN h.wrote : \A k \in DOMAIN video_files :
                  video_files[k] # p
            /\ \A p \in DOMAIN fs0 : IsVideoName(Basename(p)) => fs[p] = fs0[p]

C9_Witness ==
    /\ pc = "Reported"
    /\ run = 2
    /\ successful = 1
    /\ failed = 1
    /\ DOMAIN wrote # {}
    /\ history[1].wrote = wrote

\* C10: a frame is read only from an opened session and a PNG is written
\* only after a frame was read; an invocation that fails at open or at read
\* returns no output path and writes no file.
C10_Gated ==
    \A i \in DOMAIN inv :
        /\ inv[i].readTried => inv[i].opened
        /\ inv[i].writeTried => inv[i].gotFrame
        /\ OutcomeOf(inv[i].path) \in {"open_raise", "open_fail"} => ~inv[i].readTried
        /\ OutcomeOf(inv[i].path) \in {"read_raise", "read_none"} => ~inv[i].writeTried
        /\ ~inv[i].opened \/ ~inv[i].gotFrame =>
              /\ ~inv[i].wrote
              /\ inv[i].ret = None
              /\ i = Len(inv) /\ pc = "Finally" => ret = None

C10_Witness ==
    /\ pc = "Processing"
    /\ Len(inv) = 2
    /\ inv[1].returned /\ ~inv[1].opened
    /\ inv[2].returned /\ inv[2].readTried /\ ~inv[2].gotFrame
    /\ wrote = <<>>
    /\ fs = fs0
    /\ failed = 2
====
